---- MODULE Spec2Model ----
(***************************************************************************)
(* Proposal verification of the ledger shell (process_proposal.rs):        *)
(* verify_header, process_proposal, process_txs, process_single_tx and     *)
(* revert_proposal, over a read-only storage snapshot (tx queue,           *)
(* balances, validator set, last height).                                  *)
(***************************************************************************)
EXTENDS Integers, Sequences, FiniteSets, TLC

VARIABLES
    storage,            \* self.storage: tx_queue, balances, validators, last_height
    pc,                 \* "idle" | "scanning" | "folded": position inside process_proposal
    req,                \* req.txs of the call being served (or last served)
    idx,                \* number of transactions of req already mapped
    tx_queue_iter,      \* entries of storage.tx_queue the iterator has yielded
    eth_ev_digest_num,  \* the digest counter of the running call
    tx_results,         \* the results collected so far
    status,             \* the status of the last response ("none" before the fold)
    first_response,     \* history: the first response a sequence of calls returned
    shim_response       \* the response of verify_header / revert_proposal, until
                        \* the next request arrives ("none" when there is none)

vars ==
    <<storage, pc, req, idx, tx_queue_iter, eth_ev_digest_num, tx_results, status,
      first_response, shim_response>>

-----------------------------------------------------------------------------
(* Bounds *)

\* Longest proposal (req.txs) that is enumerated.
MaxTxs == 3

-----------------------------------------------------------------------------
(* Error codes (doc comment of process_single_tx) *)

Ok == 0
InvalidTx == 1
InvalidSig == 2
WasmRuntimeError == 3
InvalidOrder == 4
ExtraTxs == 5
Undecryptable == 6
InvalidVoteExtension == 7

ErrorCodes ==
    {Ok, InvalidTx, InvalidSig, WasmRuntimeError, InvalidOrder, ExtraTxs,
     Undecryptable, InvalidVoteExtension}

\* ErrorCodes::is_recoverable
is_recoverable(code) ==
    code \in {Ok, InvalidTx, InvalidSig, WasmRuntimeError, Undecryptable}

\* ErrorCodes::from_u32: Some(code) for a code of the table, None otherwise
from_u32(code) ==
    IF code \in ErrorCodes THEN [some |-> TRUE, code |-> code]
    ELSE [some |-> FALSE, code |-> code]

TxResult(code, info) == [code |-> code, info |-> info]

-----------------------------------------------------------------------------
(* Storage snapshot *)

Hashes == {"hA", "hB", "hC"}

\* WrapperTx as held in the queue; only tx_hash is read by process_single_tx.
QueuedWrapper(h) == [tx_hash |-> h]

\* Queues the previous block may have left behind.
Queues ==
    { <<>>,
      <<QueuedWrapper("hA")>>,
      <<QueuedWrapper("hA"), QueuedWrapper("hB")>>,
      <<QueuedWrapper("hA"), QueuedWrapper("hB"), QueuedWrapper("hC")>>,
      <<QueuedWrapper("hB"), QueuedWrapper("hB")>> }

Token == "xan"
\* Fee payers: daewon owns an account, stranger has none.
Payers == {"daewon", "stranger"}
Amounts == 0 .. 2

\* Balance tables: only daewon has an account.
BalanceTables == { [a \in {"daewon"} |-> b] : b \in {0, 1} }

\* Active validator sets with their voting power.
ValidatorSets ==
    { [a \in {"v1", "v2"} |-> IF a = "v1" THEN 2 ELSE 1],
      [a \in {"v1", "v2"} |-> IF a = "v1" THEN 3 ELSE 1] }

\* The last committed height of the snapshot, and the height before it.
LAST_HEIGHT == 2
PRED_LAST_HEIGHT == LAST_HEIGHT - 1
LastHeights == {LAST_HEIGHT}

Storages ==
    [tx_queue : Queues, balances : BalanceTables, validators : ValidatorSets,
     last_height : LastHeights]

\* storage.get_balance(token, owner): None when the owner has no account
get_balance(st, token, owner) ==
    IF token = Token /\ owner \in DOMAIN st.balances
    THEN [some |-> TRUE, amount |-> st.balances[owner]]
    ELSE [some |-> FALSE, amount |-> 0]

\* Option::unwrap_or_default on an amount
unwrap_or_default(opt) == IF opt.some THEN opt.amount ELSE 0

RECURSIVE SumPower(_, _)
SumPower(vals, addrs) ==
    IF addrs = {} THEN 0
    ELSE LET a == CHOOSE x \in addrs : TRUE
         IN vals[a] + SumPower(vals, addrs \ {a})

\* storage.get_total_voting_power(epoch) for the epoch of last_height
get_total_voting_power(st) == SumPower(st.validators, DOMAIN st.validators)

-----------------------------------------------------------------------------
(* Transactions *)

\* A signature is modelled by what it was made over and with whose key.
NoSig == [present |-> FALSE]
WrapperSig(amount, pk) == [present |-> TRUE, amount |-> amount, pk |-> pk]
ProtocolSig(key) == [present |-> TRUE, key |-> key]

\* Bytes that Tx::try_from cannot decode.
UndecodableTx == [type |-> "Undecodable"]

RawTx(payload) == [type |-> "Raw", payload |-> payload]

\* TxType::Decrypted(DecryptedTx::Decrypted(tx)): hash is hash_tx of the plaintext
DecryptedTx(h) == [type |-> "Decrypted", variant |-> "Decrypted", hash |-> h]

\* TxType::Decrypted(DecryptedTx::Undecryptable(wrapper)); inner is what the
\* wrapper's payload decrypts to: the hash of a well-formed tx, or "garbage".
UndecryptableTx(h, inner) ==
    [type |-> "Decrypted", variant |-> "Undecryptable",
     wrapper |-> [tx_hash |-> h, inner |-> inner]]

WrapperTx(amount, pk, ct_valid, sig) ==
    [type |-> "Wrapper", fee |-> [amount |-> amount, token |-> Token],
     pk |-> pk, ct_valid |-> ct_valid, sig |-> sig]

\* A vote extension signature: the key that signed, the height and events signed.
VextSig(key, height, events) == [key |-> key, height |-> height, events |-> events]

\* ethereum_events::VextDigest
VextDigest(signatures, events) == [signatures |-> signatures, events |-> events]

ProtocolTx(kind, digest, signer, sig) ==
    [type |-> "Protocol", kind |-> kind, digest |-> digest, pk |-> signer, sig |-> sig]

-----------------------------------------------------------------------------
(* Decoding and the outer signature check *)

\* Tx::try_from(tx_bytes)
try_from(tx) == tx.type # "Undecodable"

\* process_tx: Err when a wrapper is unsigned or a wrapper / protocol signature
\* does not verify against the carried public key and the carried content.
process_tx(tx) ==
    CASE tx.type = "Wrapper" ->
            IF ~tx.sig.present
            THEN [ok |-> FALSE, err |-> "Wrapper transactions must be signed"]
            ELSE IF tx.sig.pk = tx.pk /\ tx.sig.amount = tx.fee.amount
            THEN [ok |-> TRUE, err |-> ""]
            ELSE [ok |-> FALSE, err |-> "Signature verification failed: Invalid signature"]
      [] tx.type = "Protocol" ->
            IF tx.sig.present /\ tx.sig.key = tx.pk
            THEN [ok |-> TRUE, err |-> ""]
            ELSE [ok |-> FALSE, err |-> "Signature verification failed: Invalid signature"]
      [] OTHER -> [ok |-> TRUE, err |-> ""]

-----------------------------------------------------------------------------
(* Decrypted transactions *)

\* DecryptedTx::hash_commitment
hash_commitment(tx) ==
    IF tx.variant = "Decrypted" THEN tx.hash ELSE tx.wrapper.tx_hash

\* WrapperTx::decrypt succeeds when the payload decrypts to a well-formed tx
\* whose hash is the committed tx_hash.
decrypt_ok(wrapper) == wrapper.inner # "garbage" /\ wrapper.inner = wrapper.tx_hash

\* verify_decrypted_correctly(&tx, privkey)
verify_decrypted_correctly(tx) ==
    IF tx.variant = "Decrypted" THEN TRUE ELSE ~decrypt_ok(tx.wrapper)

\* Mutant: the iterator is taken from the back of the queue.
iter_next_back(st, iter) ==
    IF iter < Len(st.tx_queue)
    THEN [some |-> TRUE, wrapper |-> st.tx_queue[Len(st.tx_queue) - iter], iter |-> iter + 1]
    ELSE [some |-> FALSE, wrapper |-> QueuedWrapper("none"), iter |-> iter]

\* Mutant: the last entry of the queue is never yielded.
iter_next_short(st, iter) ==
    IF iter + 1 < Len(st.tx_queue)
    THEN [some |-> TRUE, wrapper |-> st.tx_queue[iter + 1], iter |-> iter + 1]
    ELSE [some |-> FALSE, wrapper |-> QueuedWrapper("none"), iter |-> iter]

\* tx_queue_iter.next(): the entry at the cursor, if any
iter_next(st, iter) ==
    IF iter < Len(st.tx_queue)
    THEN [some |-> TRUE, wrapper |-> st.tx_queue[iter + 1], iter |-> iter + 1]
    ELSE [some |-> FALSE, wrapper |-> QueuedWrapper("none"), iter |-> iter]

\* Mutant: the commitment is not compared with the queue entry.
DecryptedArm_no_order_check(next, tx) ==
    IF next.some
    THEN IF verify_decrypted_correctly(tx)
         THEN TxResult(Ok, "Process Proposal accepted this transaction")
         ELSE TxResult(InvalidTx,
                "The encrypted payload of tx was incorrectly marked as un-decryptable")
    ELSE TxResult(ExtraTxs, "Received more decrypted txs than expected")

\* Mutant: the Undecryptable label is trusted, the payload is not decrypted.
DecryptedArm_trust_label(next, tx) ==
    IF next.some
    THEN IF next.wrapper.tx_hash # hash_commitment(tx)
         THEN TxResult(InvalidOrder,
                "Process proposal rejected a decrypted transaction that violated the tx order determined in the previous block")
         ELSE TxResult(Ok, "Process Proposal accepted this transaction")
    ELSE TxResult(ExtraTxs, "Received more decrypted txs than expected")

\* Mutant: only a transaction that was decrypted is accepted.
DecryptedArm_decrypted_only(next, tx) ==
    IF next.some
    THEN IF next.wrapper.tx_hash # hash_commitment(tx)
         THEN TxResult(InvalidOrder,
                "Process proposal rejected a decrypted transaction that violated the tx order determined in the previous block")
         ELSE IF tx.variant = "Decrypted"
         THEN TxResult(Ok, "Process Proposal accepted this transaction")
         ELSE TxResult(InvalidTx,
                "The encrypted payload of tx was incorrectly marked as un-decryptable")
    ELSE TxResult(ExtraTxs, "Received more decrypted txs than expected")

\* Mutant: the decryption is verified before the commitment is compared.
DecryptedArm_verify_first(next, tx) ==
    IF next.some
    THEN IF ~verify_decrypted_correctly(tx)
         THEN TxResult(InvalidTx,
                "The encrypted payload of tx was incorrectly marked as un-decryptable")
         ELSE IF next.wrapper.tx_hash # hash_commitment(tx)
         THEN TxResult(InvalidOrder,
                "Process proposal rejected a decrypted transaction that violated the tx order determined in the previous block")
         ELSE TxResult(Ok, "Process Proposal accepted this transaction")
    ELSE TxResult(ExtraTxs, "Received more decrypted txs than expected")

\* Mutant: a wrongly marked transaction is answered with the code Undecryptable.
DecryptedArm_undecryptable_code(next, tx) ==
    IF next.some
    THEN IF next.wrapper.tx_hash # hash_commitment(tx)
         THEN TxResult(InvalidOrder,
                "Process proposal rejected a decrypted transaction that violated the tx order determined in the previous block")
         ELSE IF verify_decrypted_correctly(tx)
         THEN TxResult(Ok, "Process Proposal accepted this transaction")
         ELSE TxResult(Undecryptable,
                "The encrypted payload of tx was incorrectly marked as un-decryptable")
    ELSE TxResult(ExtraTxs, "Received more decrypted txs than expected")

\* The TxType::Decrypted arm, given what tx_queue_iter.next() returned.
DecryptedArm(next, tx) ==
    IF next.some
    THEN IF next.wrapper.tx_hash # hash_commitment(tx)
         THEN TxResult(InvalidOrder,
                "Process proposal rejected a decrypted transaction that violated the tx order determined in the previous block")
         ELSE IF verify_decrypted_correctly(tx)
         THEN TxResult(Ok, "Process Proposal accepted this transaction")
         ELSE TxResult(InvalidTx,
                "The encrypted payload of tx was incorrectly marked as un-decryptable")
    ELSE TxResult(ExtraTxs, "Received more decrypted txs than expected")

-----------------------------------------------------------------------------
(* Wrapper transactions *)

\* wrapper.validate_ciphertext()
validate_ciphertext(wrapper) == wrapper.ct_valid

\* wrapper.fee_payer(): the address derived from the wrapper's public key
fee_payer(wrapper) == wrapper.pk

\* Mutant: the fee must be strictly below the balance.
WrapperArm_strict(st, wrapper) ==
    IF ~validate_ciphertext(wrapper)
    THEN TxResult(InvalidTx, "The ciphertext of the wrapped tx is invalid")
    ELSE LET balance ==
                 unwrap_or_default(get_balance(st, wrapper.fee.token, fee_payer(wrapper)))
         IN IF wrapper.fee.amount < balance
            THEN TxResult(Ok, "Process proposal accepted this transaction")
            ELSE TxResult(InvalidTx,
                   "The address given does not have sufficient balance to pay fee")

\* The TxType::Wrapper arm.
WrapperArm(st, wrapper) ==
    IF ~validate_ciphertext(wrapper)
    THEN TxResult(InvalidTx, "The ciphertext of the wrapped tx is invalid")
    ELSE LET balance ==
                 unwrap_or_default(get_balance(st, wrapper.fee.token, fee_payer(wrapper)))
         IN IF wrapper.fee.amount <= balance
            THEN TxResult(Ok, "Process proposal accepted this transaction")
            ELSE TxResult(InvalidTx,
                   "The address given does not have sufficient balance to pay fee")

-----------------------------------------------------------------------------
(* Vote extension digests *)

\* VextDigest::decompress(last_height): one extension per signature, rebuilt
\* at last_height with the events the validator is listed as a signer of.
decompress(digest, last_height) ==
    [a \in DOMAIN digest.signatures |->
        [validator_addr |-> a,
         block_height |-> last_height,
         ethereum_events |-> {e.event : e \in {x \in digest.events : a \in x.signers}},
         sig |-> digest.signatures[a]]]

\* validate_eth_events_vext_list, for one extension: Ok((power, ext)) when the
\* height is the last height, the signer is an active validator and the
\* signature verifies under that validator's protocol key.
validate_vext(st, ext) ==
    IF /\ ext.block_height = st.last_height
       /\ ext.validator_addr \in DOMAIN st.validators
       /\ ext.sig.key = ext.validator_addr
       /\ ext.sig.height = ext.block_height
       /\ ext.sig.events = ext.ethereum_events
    THEN [ok |-> TRUE, power |-> st.validators[ext.validator_addr]]
    ELSE [ok |-> FALSE, power |-> 0]

\* Mutant: an invalid extension is skipped and the remaining ones still count.
RECURSIVE all_valid_skip_invalid(_, _, _, _, _)
all_valid_skip_invalid(st, exts, order, i, voting_power) ==
    IF i > Len(order) THEN [all |-> TRUE, voting_power |-> voting_power]
    ELSE LET v == validate_vext(st, exts[order[i]])
         IN all_valid_skip_invalid(st, exts, order, i + 1, voting_power + v.power)

\* Mutant: the visit ends as soon as the power seen is more than 2/3.
RECURSIVE all_valid_until_enough(_, _, _, _, _)
all_valid_until_enough(st, exts, order, i, voting_power) ==
    IF i > Len(order) \/ 3 * voting_power > 2 * get_total_voting_power(st)
    THEN [all |-> TRUE, voting_power |-> voting_power]
    ELSE LET v == validate_vext(st, exts[order[i]])
         IN IF v.ok
            THEN all_valid_until_enough(st, exts, order, i + 1, voting_power + v.power)
            ELSE [all |-> FALSE, voting_power |-> voting_power]

\* Mutant: the power of an extension is added once for the extension and once
\* more for its signature.
RECURSIVE all_valid_twice(_, _, _, _, _)
all_valid_twice(st, exts, order, i, voting_power) ==
    IF i > Len(order) THEN [all |-> TRUE, voting_power |-> voting_power]
    ELSE LET v == validate_vext(st, exts[order[i]])
         IN IF v.ok
            THEN all_valid_twice(st, exts, order, i + 1, voting_power + 2 * v.power)
            ELSE [all |-> FALSE, voting_power |-> voting_power]

\* FractionalVotingPower as numerator over total_power; default() is 0.
\* The closure of valid_extensions.into_iter().all(..): visits the extensions in
\* `order`, adds each valid one's power and stops at the first invalid one.
RECURSIVE all_valid(_, _, _, _, _)
all_valid(st, exts, order, i, voting_power) ==
    IF i > Len(order) THEN [all |-> TRUE, voting_power |-> voting_power]
    ELSE LET v == validate_vext(st, exts[order[i]])
         IN IF v.ok
            THEN all_valid(st, exts, order, i + 1, voting_power + v.power)
            ELSE [all |-> FALSE, voting_power |-> voting_power]

\* Mutant: exactly two thirds is enough.
gt_two_thirds_or_equal(num, total) == 3 * num >= 2 * total

\* voting_power > FractionalVotingPower::TWO_THIRDS, with voting_power = num / total
gt_two_thirds(num, total) == 3 * num > 2 * total

\* Mutant: the extensions are not validated, every signature of an active
\* validator counts.
DigestArm_unvalidated(st, digest, order) ==
    IF gt_two_thirds(SumPower(st.validators,
                              DOMAIN digest.signatures \cap DOMAIN st.validators),
                     get_total_voting_power(st))
    THEN TxResult(Ok, "Process proposal accepted this transaction")
    ELSE TxResult(InvalidVoteExtension,
           "Process proposal rejected this proposal because the backing stake of the vote extensions published in the proposal was insufficient")

\* The ProtocolTxType::EthereumEvents arm after the counter was incremented.
DigestArm(st, digest, order) ==
    LET extensions == decompress(digest, st.last_height)
        total_power == get_total_voting_power(st)
        acc == all_valid(st, extensions, order, 1, 0)
    IN IF acc.all
       THEN IF gt_two_thirds(acc.voting_power, total_power)
            THEN TxResult(Ok, "Process proposal accepted this transaction")
            ELSE TxResult(InvalidVoteExtension,
                   "Process proposal rejected this proposal because the backing stake of the vote extensions published in the proposal was insufficient")
       ELSE TxResult(InvalidVoteExtension,
              "Process proposal rejected this proposal because at least one of the vote extensions included was invalid.")

\* The orders in which a HashMap of signatures may be iterated.
RECURSIVE Orders(_)
Orders(S) ==
    IF S = {} THEN {<<>>}
    ELSE UNION { { <<a>> \o o : o \in Orders(S \ {a}) } : a \in S }

VisitOrders(tx) ==
    IF tx.type = "Protocol" /\ tx.kind = "EthereumEvents"
    THEN Orders(DOMAIN tx.digest.signatures)
    ELSE {<<>>}

-----------------------------------------------------------------------------
(* process_single_tx *)

\* Mutant: a decoding error is reported with the code of a signature error.
maybe_tx_decode_as_sig(tx) ==
    IF ~try_from(tx)
    THEN [ok |-> FALSE,
          err |-> TxResult(InvalidSig, "The submitted transaction was not deserializable")]
    ELSE IF ~process_tx(tx).ok
    THEN [ok |-> FALSE, err |-> TxResult(InvalidSig, process_tx(tx).err)]
    ELSE [ok |-> TRUE, err |-> TxResult(Ok, "")]

\* Mutant: the error of process_tx is ignored.
maybe_tx_no_sig_check(tx) ==
    IF ~try_from(tx)
    THEN [ok |-> FALSE,
          err |-> TxResult(InvalidTx, "The submitted transaction was not deserializable")]
    ELSE [ok |-> TRUE, err |-> TxResult(Ok, "")]

\* Mutant: a raw transaction needs no further validation and is accepted.
RawArm_ok == TxResult(Ok, "Process proposal accepted this transaction")

\* The TxType::Raw arm.
RawArm ==
    TxResult(InvalidTx, "Transaction rejected: Non-encrypted transactions are not supported")

\* maybe_tx: Err(TxResult) when the bytes do not decode (InvalidTx) or process_tx
\* refuses the wrapper / protocol signature (InvalidSig), Ok(tx) otherwise.
maybe_tx(tx) ==
    IF ~try_from(tx)
    THEN [ok |-> FALSE,
          err |-> TxResult(InvalidTx, "The submitted transaction was not deserializable")]
    ELSE IF ~process_tx(tx).ok
    THEN [ok |-> FALSE, err |-> TxResult(InvalidSig, process_tx(tx).err)]
    ELSE [ok |-> TRUE, err |-> TxResult(Ok, "")]

\* Mutant: the queue entry is peeked at, and consumed only by an accepted
\* decrypted transaction.
process_single_tx_peek(st, tx, iter, num, order) ==
    IF ~maybe_tx(tx).ok
    THEN [result |-> maybe_tx(tx).err, iter |-> iter, num |-> num]
    ELSE CASE tx.type = "Raw" ->
                [result |-> RawArm, iter |-> iter, num |-> num]
           [] tx.type = "Protocol" ->
                IF tx.kind = "EthereumEvents"
                THEN [result |-> DigestArm(st, tx.digest, order),
                      iter |-> iter, num |-> num + 1]
                ELSE [result |-> TxResult(InvalidTx, "Unsupported protocol transaction type"),
                      iter |-> iter, num |-> num]
           [] tx.type = "Decrypted" ->
                LET next == iter_next(st, iter)
                    result == DecryptedArm(next, tx)
                IN [result |-> result,
                    iter |-> IF result.code = Ok THEN next.iter ELSE iter,
                    num |-> num]
           [] tx.type = "Wrapper" ->
                [result |-> WrapperArm(st, tx), iter |-> iter, num |-> num]

\* Mutant: only a digest that was accepted is counted.
process_single_tx_count_valid(st, tx, iter, num, order) ==
    IF ~maybe_tx(tx).ok
    THEN [result |-> maybe_tx(tx).err, iter |-> iter, num |-> num]
    ELSE CASE tx.type = "Raw" ->
                [result |-> RawArm, iter |-> iter, num |-> num]
           [] tx.type = "Protocol" ->
                IF tx.kind = "EthereumEvents"
                THEN LET result == DigestArm(st, tx.digest, order)
                     IN [result |-> result, iter |-> iter,
                         num |-> IF result.code = Ok THEN num + 1 ELSE num]
                ELSE [result |-> TxResult(InvalidTx, "Unsupported protocol transaction type"),
                      iter |-> iter, num |-> num]
           [] tx.type = "Decrypted" ->
                LET next == iter_next(st, iter)
                IN [result |-> DecryptedArm(next, tx), iter |-> next.iter, num |-> num]
           [] tx.type = "Wrapper" ->
                [result |-> WrapperArm(st, tx), iter |-> iter, num |-> num]

\* Mutant: a raw transaction takes an entry off the iterator as well.
process_single_tx_raw_consumes(st, tx, iter, num, order) ==
    IF ~maybe_tx(tx).ok
    THEN [result |-> maybe_tx(tx).err, iter |-> iter, num |-> num]
    ELSE CASE tx.type = "Raw" ->
                [result |-> RawArm, iter |-> iter_next(st, iter).iter, num |-> num]
           [] tx.type = "Protocol" ->
                IF tx.kind = "EthereumEvents"
                THEN [result |-> DigestArm(st, tx.digest, order),
                      iter |-> iter, num |-> num + 1]
                ELSE [result |-> TxResult(InvalidTx, "Unsupported protocol transaction type"),
                      iter |-> iter, num |-> num]
           [] tx.type = "Decrypted" ->
                LET next == iter_next(st, iter)
                IN [result |-> DecryptedArm(next, tx), iter |-> next.iter, num |-> num]
           [] tx.type = "Wrapper" ->
                [result |-> WrapperArm(st, tx), iter |-> iter, num |-> num]

\* Returns the TxResult together with the iterator and the counter as the call
\* leaves them (both are &mut arguments).
process_single_tx(st, tx, iter, num, order) ==
    IF ~maybe_tx(tx).ok
    THEN [result |-> maybe_tx(tx).err, iter |-> iter, num |-> num]
    ELSE CASE tx.type = "Raw" ->
                [result |-> RawArm, iter |-> iter, num |-> num]
           [] tx.type = "Protocol" ->
                IF tx.kind = "EthereumEvents"
                THEN [result |-> DigestArm(st, tx.digest, order),
                      iter |-> iter, num |-> num + 1]
                ELSE [result |-> TxResult(InvalidTx, "Unsupported protocol transaction type"),
                      iter |-> iter, num |-> num]
           [] tx.type = "Decrypted" ->
                LET next == iter_next(st, iter)
                IN [result |-> DecryptedArm(next, tx), iter |-> next.iter, num |-> num]
           [] tx.type = "Wrapper" ->
                [result |-> WrapperArm(st, tx), iter |-> iter, num |-> num]

-----------------------------------------------------------------------------
(* Proposals *)

\* The signature a signer in state `how` contributes to a digest without events.
SigOf(a, how) ==
    CASE how = "good" -> VextSig(a, LAST_HEIGHT, {})
      [] how = "badsig" -> VextSig("forged", LAST_HEIGHT, {})
      [] how = "badheight" -> VextSig(a, PRED_LAST_HEIGHT, {})

\* A digest with an empty event list, from signer -> "good" | "badsig" | "badheight".
DigestOf(f) == VextDigest([a \in DOMAIN f |-> SigOf(a, f[a])], {})

\* A protocol tx carrying a digest, signed by validator v1's protocol key.
DigestTx(f) == ProtocolTx("EthereumEvents", DigestOf(f), "v1", ProtocolSig("v1"))

BothGood == [a \in {"v1", "v2"} |-> "good"]
SoloV1 == [a \in {"v1"} |-> "good"]
\* v1 signed for the height before the last one, v2 for the last one.
StaleV1 == [a \in {"v1", "v2"} |-> IF a = "v1" THEN "badheight" ELSE "good"]

\* The transactions proposals are built from.
ProposalTxs ==
    { UndecodableTx,
      RawTx("p"), RawTx("q"),
      DigestTx(BothGood), DigestTx(SoloV1), DigestTx(StaleV1),
      ProtocolTx("EthereumEvents", DigestOf(BothGood), "v1", ProtocolSig("forged")),
      DecryptedTx("hA"), DecryptedTx("hB"), DecryptedTx("hC"),
      UndecryptableTx("hA", "garbage"), UndecryptableTx("hA", "hA"),
      WrapperTx(1, "daewon", TRUE, WrapperSig(1, "daewon")),
      WrapperTx(0, "daewon", TRUE, WrapperSig(1, "daewon")) }

Proposals == UNION { [1 .. n -> ProposalTxs] : n \in 0 .. MaxTxs }

-----------------------------------------------------------------------------
(* process_proposal *)

Init ==
    /\ storage \in Storages
    /\ pc = "idle"
    /\ req = <<>>
    /\ idx = 0
    /\ tx_queue_iter = 0
    /\ eth_ev_digest_num = 0
    /\ tx_results = <<>>
    /\ status = "none"
    /\ first_response = [some |-> FALSE]
    /\ shim_response = "none"

\* A RequestProcessProposal with txs arrives: fresh queue iterator, counter at 0.
Begin(txs) ==
    /\ pc = "idle"
    /\ req' = txs
    /\ pc' = "scanning"
    /\ idx' = 0
    /\ tx_queue_iter' = 0
    /\ eth_ev_digest_num' = 0
    /\ tx_results' = <<>>
    /\ status' = "none"
    /\ shim_response' = "none"
    /\ UNCHANGED <<storage, first_response>>

ProcessProposalBegin == pc = "idle" /\ \E txs \in Proposals : Begin(txs)

\* Mutant: once an unrecoverable result was collected, later results are dropped.
ProcessProposalMap_stop_collecting ==
    /\ pc = "scanning"
    /\ idx < Len(req)
    /\ \E order \in VisitOrders(req[idx + 1]) :
          LET r == process_single_tx(storage, req[idx + 1], tx_queue_iter,
                                     eth_ev_digest_num, order)
          IN /\ tx_results' =
                   IF \E k \in 1 .. Len(tx_results) : ~is_recoverable(tx_results[k].code)
                   THEN tx_results ELSE Append(tx_results, r.result)
             /\ tx_queue_iter' = r.iter
             /\ eth_ev_digest_num' = r.num
    /\ idx' = idx + 1
    /\ UNCHANGED <<storage, pc, req, status, first_response, shim_response>>

\* Mutant: the wrappers the iterator yields are popped off the stored queue.
ProcessProposalMap_pop_queue ==
    /\ pc = "scanning"
    /\ idx < Len(req)
    /\ \E order \in VisitOrders(req[idx + 1]) :
          LET r == process_single_tx(storage, req[idx + 1], 0,
                                     eth_ev_digest_num, order)
          IN /\ tx_results' = Append(tx_results, r.result)
             /\ tx_queue_iter' = tx_queue_iter + r.iter
             /\ storage' = [storage EXCEPT
                              !.tx_queue = SubSeq(@, r.iter + 1, Len(@))]
             /\ eth_ev_digest_num' = r.num
    /\ idx' = idx + 1
    /\ UNCHANGED <<pc, req, status, first_response, shim_response>>

\* One turn of req.txs.iter().map(..): process_single_tx on the next transaction.
ProcessProposalMap ==
    /\ pc = "scanning"
    /\ idx < Len(req)
    /\ \E order \in VisitOrders(req[idx + 1]) :
          LET r == process_single_tx(storage, req[idx + 1], tx_queue_iter,
                                     eth_ev_digest_num, order)
          IN /\ tx_results' = Append(tx_results, r.result)
             /\ tx_queue_iter' = r.iter
             /\ eth_ev_digest_num' = r.num
    /\ idx' = idx + 1
    /\ UNCHANGED <<storage, pc, req, status, first_response, shim_response>>

\* Mutant: any result other than Ok counts as an invalid transaction.
any_not_ok(results, i) ==
    IF \E k \in i .. Len(results) : results[k].code # Ok THEN "true" ELSE "false"

\* tx_results.iter().any(..): TRUE at the first unrecoverable code; aborts (expect)
\* on a code outside the table met before that.
RECURSIVE any_unrecoverable(_, _)
any_unrecoverable(results, i) ==
    IF i > Len(results) THEN "false"
    ELSE IF ~from_u32(results[i].code).some THEN "abort"
    ELSE IF ~is_recoverable(results[i].code) THEN "true"
    ELSE any_unrecoverable(results, i + 1)

\* Mutant: only more than one digest is an invalid number of digests.
ProposalStatus_more_than_one(num, invalid_txs) ==
    IF num > 1 \/ invalid_txs THEN "Reject" ELSE "Accept"

\* Mutant: the unrecoverable results do not enter the status.
ProposalStatus_count_only(num, invalid_txs) ==
    IF num # 1 THEN "Reject" ELSE "Accept"

\* The status process_proposal answers with.
ProposalStatus(num, invalid_txs) ==
    LET invalid_num_of_eth_ev_digests == num # 1
    IN IF invalid_num_of_eth_ev_digests \/ invalid_txs THEN "Reject" ELSE "Accept"

\* Mutant: a proposal that leaves wrappers in the queue is rejected.
ProcessProposalFold_whole_queue ==
    /\ pc = "scanning"
    /\ idx = Len(req)
    /\ LET invalid_txs == any_unrecoverable(tx_results, 1)
       IN IF invalid_txs = "abort"
          THEN pc' = "aborted" /\ status' = "none"
          ELSE /\ pc' = "folded"
               /\ status' = ProposalStatus(eth_ev_digest_num,
                                \/ invalid_txs = "true"
                                \/ tx_queue_iter < Len(storage.tx_queue))
    /\ UNCHANGED <<storage, req, idx, tx_queue_iter, eth_ev_digest_num, tx_results,
                   first_response, shim_response>>

\* The fold after the scan: digest count, unrecoverable codes, status, response.
ProcessProposalFold ==
    /\ pc = "scanning"
    /\ idx = Len(req)
    /\ LET invalid_txs == any_unrecoverable(tx_results, 1)
       IN IF invalid_txs = "abort"
          THEN pc' = "aborted" /\ status' = "none"
          ELSE /\ pc' = "folded"
               /\ status' = ProposalStatus(eth_ev_digest_num, invalid_txs = "true")
    /\ UNCHANGED <<storage, req, idx, tx_queue_iter, eth_ev_digest_num, tx_results,
                   first_response, shim_response>>

\* Mutant: the wrappers the call went through are removed from the stored queue
\* when the response is handed back.
Return_dequeue ==
    /\ pc = "folded"
    /\ pc' = "idle"
    /\ req' = <<>>
    /\ idx' = 0
    /\ tx_queue_iter' = 0
    /\ eth_ev_digest_num' = 0
    /\ tx_results' = <<>>
    /\ status' = "none"
    /\ storage' = [storage EXCEPT
                     !.tx_queue = SubSeq(@, tx_queue_iter + 1, Len(@))]
    /\ UNCHANGED shim_response

\* The ResponseProcessProposal is handed back; the iterator, the counter and the
\* collected results are locals of the call and are dropped.
Return ==
    /\ pc = "folded"
    /\ pc' = "idle"
    /\ req' = <<>>
    /\ idx' = 0
    /\ tx_queue_iter' = 0
    /\ eth_ev_digest_num' = 0
    /\ tx_results' = <<>>
    /\ status' = "none"
    /\ UNCHANGED <<storage, shim_response>>

ProcessProposalReturn == Return /\ UNCHANGED first_response

\* verify_header: Default::default(), nothing else.
VerifyHeader ==
    /\ pc = "idle"
    /\ shim_response' = "VerifyHeader::default"
    /\ UNCHANGED <<storage, pc, req, idx, tx_queue_iter, eth_ev_digest_num,
                   tx_results, status, first_response>>

\* Mutant: reverting a proposal drops the queued wrappers.
RevertProposal_clear_queue ==
    /\ pc = "idle"
    /\ shim_response' = "RevertProposal::default"
    /\ storage' = [storage EXCEPT !.tx_queue = <<>>]
    /\ UNCHANGED <<pc, req, idx, tx_queue_iter, eth_ev_digest_num,
                   tx_results, status, first_response>>

\* revert_proposal: Default::default(), nothing else.
RevertProposal ==
    /\ pc = "idle"
    /\ shim_response' = "RevertProposal::default"
    /\ UNCHANGED <<storage, pc, req, idx, tx_queue_iter, eth_ev_digest_num,
                   tx_results, status, first_response>>

Next ==
    \/ VerifyHeader
    \/ ProcessProposalBegin
    \/ ProcessProposalMap
    \/ ProcessProposalFold
    \/ ProcessProposalReturn
    \/ RevertProposal

Spec == Init /\ [][Next]_vars

-----------------------------------------------------------------------------
(* process_txs *)

\* ExecTxResult::from(TxResult): the code and the info are carried over.
ExecTxResult_from(result) == [code |-> result.code, info |-> result.info]

\* Mutant: every transaction is given an iterator of its own.
RECURSIVE process_txs_fresh_iter(_, _, _, _)
process_txs_fresh_iter(st, txs, k, iter) ==
    IF k > Len(txs) THEN {<<>>}
    ELSE UNION { { <<ExecTxResult_from(r.result)>> \o rest :
                     rest \in process_txs_fresh_iter(st, txs, k + 1, 0) } :
                 r \in { process_single_tx(st, txs[k], 0, 0, order) :
                            order \in VisitOrders(txs[k]) } }

\* txs.iter().map(..).collect() from transaction k on, the shared iterator at
\* `iter` and a counter `&mut 0` per transaction: the result lists it can return,
\* one for each way the signatures of the digests are iterated.
RECURSIVE process_txs_from(_, _, _, _)
process_txs_from(st, txs, k, iter) ==
    IF k > Len(txs) THEN {<<>>}
    ELSE UNION { { <<ExecTxResult_from(r.result)>> \o rest :
                     rest \in process_txs_from(st, txs, k + 1, r.iter) } :
                 r \in { process_single_tx(st, txs[k], iter, 0, order) :
                            order \in VisitOrders(txs[k]) } }

\* process_txs(txs), with a fresh iterator over the stored queue.
process_txs(st, txs) == process_txs_from(st, txs, 1, 0)

-----------------------------------------------------------------------------
(* A sequence of process_proposal calls, the first response kept as history *)

CallTxs == { DecryptedTx("hA"), DecryptedTx("hC"), DigestTx(BothGood) }

CallProposals == UNION { [1 .. n -> CallTxs] : n \in 0 .. MaxTxs }

CallsBegin == pc = "idle" /\ \E txs \in CallProposals : Begin(txs)

CallsReturn ==
    /\ Return
    /\ first_response' =
          IF first_response.some THEN first_response
          ELSE [some |-> TRUE, req |-> req, tx_results |-> tx_results, status |-> status]

NextCalls ==
    \/ VerifyHeader
    \/ RevertProposal
    \/ CallsBegin
    \/ ProcessProposalMap
    \/ ProcessProposalFold
    \/ CallsReturn

SpecCalls == Init /\ [][NextCalls]_vars

-----------------------------------------------------------------------------
(* process_single_tx called on its own, on one iterator and one counter *)

AllSigners == {"v1", "v2", "bertha"}

\* Every way each of v1, v2 and bertha (no validator) can take part in a digest.
SignerStates ==
    { f \in UNION { [S -> {"good", "badsig", "badheight"}] : S \in SUBSET AllSigners } :
        "bertha" \in DOMAIN f => f["bertha"] = "good" }

SingleTxs ==
    {UndecodableTx}
    \cup { RawTx(p) : p \in {"p", "q"} }
    \cup { DecryptedTx(h) : h \in Hashes }
    \cup { UndecryptableTx(h, i) : h \in Hashes, i \in Hashes \cup {"garbage"} }
    \cup { WrapperTx(a, pk, ct, sig) :
              a \in Amounts, pk \in Payers, ct \in BOOLEAN,
              sig \in {NoSig} \cup { WrapperSig(b, "daewon") : b \in Amounts }
                            \cup { WrapperSig(b, "stranger") : b \in {0, 1} } }
    \cup { DigestTx(f) : f \in SignerStates }
    \cup { ProtocolTx("EthereumEvents", DigestOf(BothGood), "v1", ProtocolSig("forged")),
           ProtocolTx("EthereumEvents", DigestOf(BothGood), "v1", NoSig),
           ProtocolTx("Other", DigestOf(BothGood), "v1", ProtocolSig("v1")) }

InitTx ==
    /\ storage \in Storages
    /\ pc = "single"
    /\ req = <<>>
    /\ idx = 0
    /\ tx_queue_iter = 0
    /\ eth_ev_digest_num = 0
    /\ tx_results = <<>>
    /\ status = "none"
    /\ first_response = [some |-> FALSE]
    /\ shim_response = "none"

\* One call; req and tx_results hold the transaction and the result of the last call.
ProcessSingleTx ==
    /\ pc = "single"
    /\ idx < MaxTxs
    /\ \E tx \in SingleTxs : \E order \in VisitOrders(tx) :
          LET r == process_single_tx(storage, tx, tx_queue_iter, eth_ev_digest_num, order)
          IN /\ req' = <<tx>>
             /\ tx_results' = <<r.result>>
             /\ tx_queue_iter' = r.iter
             /\ eth_ev_digest_num' = r.num
    /\ idx' = idx + 1
    /\ UNCHANGED <<storage, pc, status, first_response, shim_response>>

NextTx == ProcessSingleTx

SpecTx == InitTx /\ [][NextTx]_vars

-----------------------------------------------------------------------------
(* Properties *)

Codes(results) == { results[k].code : k \in 1 .. Len(results) }

UnrecoverableCodes == {InvalidOrder, ExtraTxs, InvalidVoteExtension}

\* A transaction that decodes, passes the outer signature check and carries a digest.
IsDigestTx(tx) ==
    /\ tx.type = "Protocol"
    /\ tx.kind = "EthereumEvents"
    /\ tx.sig.present
    /\ tx.sig.key = tx.pk

DigestPositions(txs) == { k \in 1 .. Len(txs) : IsDigestTx(txs[k]) }

\* Every signer of the digest verifies and their power is more than 2/3 of the total.
DigestBacked(st, digest) ==
    /\ \A a \in DOMAIN digest.signatures :
          /\ a \in DOMAIN st.validators
          /\ digest.signatures[a] = VextSig(a, st.last_height, {})
    /\ digest.events = {}
    /\ 3 * SumPower(st.validators, DOMAIN digest.signatures)
          > 2 * SumPower(st.validators, DOMAIN st.validators)

\* C1: a proposal with no digest, or with two or more, is rejected whatever the
\* results of its transactions are.
C1_DigestCountRejects ==
    pc = "folded" /\ Cardinality(DigestPositions(req)) # 1 => status = "Reject"

\* C1 witness: two valid digests, every result Ok, and the proposal is rejected.
C1_Witness ==
    /\ pc = "folded"
    /\ Cardinality(DigestPositions(req)) >= 2
    /\ Codes(tx_results) = {Ok}
    /\ status = "Reject"

\* C2: a result with code InvalidOrder, ExtraTxs or InvalidVoteExtension makes the
\* status Reject, also with exactly one digest and every other result Ok.
C2_UnrecoverableRejects ==
    pc = "folded" /\ Codes(tx_results) \cap UnrecoverableCodes # {} => status = "Reject"

\* C2 witness: one digest, a single unrecoverable result on another transaction,
\* every other result Ok, and the proposal is rejected.
C2_Witness ==
    /\ pc = "folded"
    /\ Cardinality(DigestPositions(req)) = 1
    /\ \E k \in 1 .. Len(tx_results) :
          /\ tx_results[k].code = InvalidOrder
          /\ \A j \in (1 .. Len(tx_results)) \ {k} : tx_results[j].code = Ok
    /\ status = "Reject"

\* C3: exactly one digest, backed by verified signers holding more than 2/3 of the
\* power, and no unrecoverable result on any other transaction: the status is Accept,
\* however many InvalidTx / InvalidSig results there are.
C3_BackedDigestAccepts ==
    pc = "folded" =>
      \A d \in DigestPositions(req) :
         ( /\ DigestPositions(req) = {d}
           /\ DigestBacked(storage, req[d].digest)
           /\ \A k \in (1 .. Len(tx_results)) \ {d} :
                 tx_results[k].code \notin UnrecoverableCodes )
         => status = "Accept"

\* C3 witness: an accepted proposal holding an InvalidTx and an InvalidSig result.
C3_Witness ==
    /\ pc = "folded"
    /\ status = "Accept"
    /\ {InvalidTx, InvalidSig} \subseteq Codes(tx_results)

\* The cursor process_single_tx finds when it reaches transaction k of txs.
CursorAt(st, txs, k) ==
    LET seen == Cardinality({ j \in 1 .. k - 1 : txs[j].type = "Decrypted" })
    IN IF seen < Len(st.tx_queue) THEN seen ELSE Len(st.tx_queue)

\* The result of transaction k of txs taken on its own.
ResultAt(st, txs, k) ==
    process_single_tx(st, txs[k], CursorAt(st, txs, k), 0,
                      CHOOSE o \in VisitOrders(txs[k]) : TRUE).result

\* C4: the response holds one result per transaction of the request, entry i being
\* the result of transaction i, whatever the status.
C4_ResultsInFullAndInOrder ==
    /\ pc = "scanning" => Len(tx_results) = idx
    /\ pc = "folded" =>
          /\ Len(tx_results) = Len(req)
          /\ \A k \in 1 .. Len(req) : tx_results[k] = ResultAt(storage, req, k)

\* C4 witness: a rejected proposal whose first result is unrecoverable and whose
\* later transactions still have their results.
C4_Witness ==
    /\ pc = "folded"
    /\ status = "Reject"
    /\ Len(req) = 3
    /\ tx_results[1].code \in UnrecoverableCodes
    /\ tx_results[2].code = Ok
    /\ tx_results[3].code = InvalidTx

\* The queue entry the iterator yields next, in a state between two calls.
AtCursor == storage.tx_queue[tx_queue_iter + 1]

\* C5: a decrypted transaction is answered Ok only when the queue has an entry at
\* the cursor whose tx_hash is the transaction's commitment; when the entry exists
\* and the hashes differ the answer is InvalidOrder.
C5_DecryptedAgainstCursor ==
    [][ (idx' = idx + 1 /\ req'[1].type = "Decrypted") =>
          /\ tx_results'[1].code = Ok =>
                /\ tx_queue_iter < Len(storage.tx_queue)
                /\ AtCursor.tx_hash = hash_commitment(req'[1])
          /\ ( /\ tx_queue_iter < Len(storage.tx_queue)
               /\ AtCursor.tx_hash # hash_commitment(req'[1]) )
             => tx_results'[1].code = InvalidOrder ]_vars

\* C5 witness: a correctly marked undecryptable transaction met the second queue
\* entry, whose hash differs, and was answered InvalidOrder.
C5_Witness ==
    /\ pc = "single"
    /\ Len(req) = 1
    /\ req[1].type = "Decrypted"
    /\ req[1].variant = "Undecryptable"
    /\ req[1].wrapper.inner = "garbage"
    /\ tx_queue_iter = 2
    /\ storage.tx_queue[2].tx_hash # req[1].wrapper.tx_hash
    /\ tx_results[1].code = InvalidOrder

\* A queue of three entries with pairwise distinct hashes.
QueueABC(q) ==
    /\ Len(q) = 3
    /\ Cardinality({ q[k].tx_hash : k \in 1 .. 3 }) = 3

Matches(tx, wrapper) ==
    tx.type = "Decrypted" /\ hash_commitment(tx) = wrapper.tx_hash

DecryptedBefore(txs, k) == { j \in 1 .. k - 1 : txs[j].type = "Decrypted" }

\* C6: against a queue [A, B, C], a decrypted transaction matching C that comes
\* right after one matching A, or first among the decrypted transactions of a call,
\* is answered InvalidOrder and the proposal is rejected.
C6_SkippingIsInvalidOrder ==
    pc = "folded" /\ QueueABC(storage.tx_queue) =>
      \A k \in 1 .. Len(req) :
         ( /\ Matches(req[k], storage.tx_queue[3])
           /\ \/ DecryptedBefore(req, k) = {}
              \/ \E j \in 1 .. k - 1 :
                    /\ DecryptedBefore(req, k) = {j}
                    /\ Matches(req[j], storage.tx_queue[1]) )
         => tx_results[k].code = InvalidOrder /\ status = "Reject"

\* C6 witness: the first call accepted a proposal with the transaction matching A;
\* a later call against the same queue brings the one matching C, which is
\* answered InvalidOrder, and the proposal is rejected.
C6_Witness ==
    /\ QueueABC(storage.tx_queue)
    /\ first_response.some
    /\ first_response.status = "Accept"
    /\ \E k \in 1 .. Len(first_response.req) :
          /\ Matches(first_response.req[k], storage.tx_queue[1])
          /\ first_response.tx_results[k].code = Ok
    /\ pc = "folded"
    /\ Cardinality(DigestPositions(req)) = 1
    /\ \E k \in 1 .. Len(req) :
          /\ Matches(req[k], storage.tx_queue[3])
          /\ DecryptedBefore(req, k) = {}
          /\ tx_results[k].code = InvalidOrder
    /\ status = "Reject"

\* C7: in one proposal the k-th decrypted transaction is answered ExtraTxs exactly
\* when k exceeds the length of the queue, and such a proposal is rejected.
C7_SurplusIsExtraTxs ==
    /\ pc \in {"scanning", "folded"} =>
          \A k \in 1 .. Len(tx_results) :
             req[k].type = "Decrypted" =>
                ( tx_results[k].code = ExtraTxs
                    <=> Cardinality(DecryptedBefore(req, k)) + 1 > Len(storage.tx_queue) )
    /\ pc = "folded" =>
          ( (\E k \in 1 .. Len(req) :
                /\ req[k].type = "Decrypted"
                /\ Cardinality(DecryptedBefore(req, k)) + 1 > Len(storage.tx_queue))
            => status = "Reject" )

\* C7 witness: a queue of one entry and three decrypted transactions; the first is
\* Ok, both surplus ones are ExtraTxs, the proposal is rejected.
C7_Witness ==
    /\ pc = "folded"
    /\ Len(storage.tx_queue) = 1
    /\ Len(req) = 3
    /\ \A k \in 1 .. 3 : req[k].type = "Decrypted"
    /\ tx_results[1].code = Ok
    /\ tx_results[2].code = ExtraTxs
    /\ tx_results[3].code = ExtraTxs
    /\ status = "Reject"

\* The fee payer's balance in the snapshot, zero without an account.
BalanceOf(st, payer) == IF payer \in DOMAIN st.balances THEN st.balances[payer] ELSE 0

\* C8: a correctly signed wrapper with valid ciphertext is answered Ok when its fee
\* is at most the payer's balance (zero without an account) and InvalidTx when it is
\* more; with invalid ciphertext it is answered InvalidTx whatever the balance.
C8_WrapperFee ==
    ( /\ pc = "single"
      /\ Len(req) = 1
      /\ req[1].type = "Wrapper"
      /\ req[1].sig = WrapperSig(req[1].fee.amount, req[1].pk) )
    => IF req[1].ct_valid
       THEN IF req[1].fee.amount <= BalanceOf(storage, req[1].pk)
            THEN tx_results[1].code = Ok
            ELSE tx_results[1].code = InvalidTx
       ELSE tx_results[1].code = InvalidTx

\* C8 witness: a payer with an account whose balance equals the non-zero fee: Ok.
C8_Witness ==
    /\ pc = "single"
    /\ Len(req) = 1
    /\ req[1].type = "Wrapper"
    /\ req[1].sig = WrapperSig(req[1].fee.amount, req[1].pk)
    /\ req[1].ct_valid
    /\ req[1].pk \in DOMAIN storage.balances
    /\ req[1].fee.amount = 1
    /\ storage.balances[req[1].pk] = 1
    /\ tx_results[1].code = Ok

\* C9: a wrapper without signature, or whose content differs from what was signed,
\* is answered InvalidSig, before ciphertext and fee are looked at.
C9_BadSignatureIsInvalidSig ==
    ( /\ pc = "single"
      /\ Len(req) = 1
      /\ req[1].type = "Wrapper"
      /\ req[1].sig # WrapperSig(req[1].fee.amount, req[1].pk) )
    => tx_results[1].code = InvalidSig

\* C9 witness: a fee of 1 was signed, the fee was lowered to 0, which the payer can
\* afford, the ciphertext is valid, and the answer is InvalidSig.
C9_Witness ==
    /\ pc = "single"
    /\ Len(req) = 1
    /\ req[1].type = "Wrapper"
    /\ req[1].sig = WrapperSig(1, req[1].pk)
    /\ req[1].fee.amount = 0
    /\ req[1].ct_valid
    /\ tx_results[1].code = InvalidSig

\* C10: a raw transaction is answered InvalidTx wherever it stands, the scan goes on
\* to the end of the proposal, and a rejection is never due to a raw transaction: a
\* rejected proposal has a wrong digest count or an unrecoverable result elsewhere.
C10_RawIsInvalidTx ==
    /\ pc # "aborted"
    /\ pc \in {"scanning", "folded"} =>
          \A k \in 1 .. Len(tx_results) :
             req[k].type = "Raw" => tx_results[k].code = InvalidTx
    /\ pc = "folded" =>
          /\ Len(tx_results) = Len(req)
          /\ status = "Reject" =>
                \/ Cardinality(DigestPositions(req)) # 1
                \/ \E k \in 1 .. Len(req) :
                      req[k].type # "Raw" /\ tx_results[k].code \in UnrecoverableCodes

\* C10 witness: raw transactions before and after the digest, both answered
\* InvalidTx, in an accepted proposal.
C10_Witness ==
    /\ pc = "folded"
    /\ Len(req) = 3
    /\ req[1].type = "Raw"
    /\ req[3].type = "Raw"
    /\ req[1].payload # req[3].payload
    /\ tx_results[1].code = InvalidTx
    /\ tx_results[3].code = InvalidTx
    /\ tx_results[2].code = Ok
    /\ status = "Accept"

\* The extension of signer a verifies: a is an active validator and signed its
\* events for the last height.
ExtVerifies(st, digest, a) ==
    /\ a \in DOMAIN st.validators
    /\ digest.signatures[a] = VextSig(a, st.last_height, {})

\* The power of the signers of the digest whose extension verifies.
VerifiedPower(st, digest) ==
    SumPower(st.validators,
             { a \in DOMAIN digest.signatures : ExtVerifies(st, digest, a) })

SingleDigest ==
    /\ pc = "single"
    /\ Len(req) = 1
    /\ IsDigestTx(req[1])

\* C11: when every extension of a digest verifies, the digest is answered Ok if
\* and only if the power of its signers is strictly more than 2/3 of the total;
\* exactly 2/3, and a digest without signers, are answered InvalidVoteExtension.
C11_StrictlyMoreThanTwoThirds ==
    ( /\ SingleDigest
      /\ \A a \in DOMAIN req[1].digest.signatures :
            ExtVerifies(storage, req[1].digest, a) )
    => LET num == SumPower(storage.validators, DOMAIN req[1].digest.signatures)
           total == SumPower(storage.validators, DOMAIN storage.validators)
       IN /\ tx_results[1].code \in {Ok, InvalidVoteExtension}
          /\ tx_results[1].code = Ok <=> 3 * num > 2 * total
          /\ DOMAIN req[1].digest.signatures = {} =>
                tx_results[1].code = InvalidVoteExtension

\* C11 witness: the signers verify and hold exactly 2/3 of the power, and the
\* digest is answered InvalidVoteExtension.
C11_Witness ==
    /\ SingleDigest
    /\ DOMAIN req[1].digest.signatures # {}
    /\ \A a \in DOMAIN req[1].digest.signatures :
          ExtVerifies(storage, req[1].digest, a)
    /\ 3 * SumPower(storage.validators, DOMAIN req[1].digest.signatures)
          = 2 * SumPower(storage.validators, DOMAIN storage.validators)
    /\ tx_results[1].code = InvalidVoteExtension

\* C12: a digest with at least one extension that does not verify is answered
\* InvalidVoteExtension, whatever the power of the extensions that do verify.
C12_OneInvalidExtensionInvalidates ==
    ( /\ SingleDigest
      /\ \E a \in DOMAIN req[1].digest.signatures :
            ~ExtVerifies(storage, req[1].digest, a) )
    => tx_results[1].code = InvalidVoteExtension

\* C12 witness: one extension does not verify, the ones that do hold more than
\* 2/3 of the power, and the digest is answered InvalidVoteExtension.
C12_Witness ==
    /\ SingleDigest
    /\ \E a \in DOMAIN req[1].digest.signatures :
          ~ExtVerifies(storage, req[1].digest, a)
    /\ 3 * VerifiedPower(storage, req[1].digest)
          > 2 * SumPower(storage.validators, DOMAIN storage.validators)
    /\ tx_results[1].code = InvalidVoteExtension

\* A digest with an extension an active validator signed for another height than
\* the last one.
StaleExtension(st, tx) ==
    /\ IsDigestTx(tx)
    /\ \E a \in DOMAIN tx.digest.signatures \cap DOMAIN st.validators :
          /\ tx.digest.signatures[a].key = a
          /\ tx.digest.signatures[a].height # st.last_height

\* C13: a digest with an extension that an active validator signed for a height
\* other than the last one is answered InvalidVoteExtension, and a proposal whose
\* only digest is such a digest is rejected.
C13_StaleHeightRejects ==
    /\ pc \in {"scanning", "folded"} =>
          \A k \in 1 .. Len(tx_results) :
             StaleExtension(storage, req[k]) =>
                tx_results[k].code = InvalidVoteExtension
    /\ ( /\ pc = "folded"
         /\ \E k \in 1 .. Len(req) :
               DigestPositions(req) = {k} /\ StaleExtension(storage, req[k]) )
       => status = "Reject"

\* C13 witness: the only digest is signed by every validator, one of them for the
\* height before the last one; every other result is Ok; the proposal is rejected.
C13_Witness ==
    /\ pc = "folded"
    /\ Len(req) = 3
    /\ \E k \in 1 .. Len(req) :
          /\ DigestPositions(req) = {k}
          /\ StaleExtension(storage, req[k])
          /\ DOMAIN req[k].digest.signatures = DOMAIN storage.validators
          /\ tx_results[k].code = InvalidVoteExtension
          /\ \A j \in (1 .. Len(req)) \ {k} : tx_results[j].code = Ok
    /\ status = "Reject"

\* C14: no step of process_proposal changes the storage (queue, balances, voting
\* powers, last height), whatever the proposal and its status; the cursor, the
\* digest counter and the collected results are gone once the call has returned.
C14_StorageUntouched ==
    [][ /\ storage' = storage
        /\ pc' = "idle" =>
              /\ tx_queue_iter' = 0
              /\ eth_ev_digest_num' = 0
              /\ tx_results' = <<>> ]_vars

\* C14 witness: the call went through two queued wrappers and counted a digest,
\* and the stored queue still holds both wrappers.
C14_Witness ==
    /\ pc = "folded"
    /\ tx_queue_iter = 2
    /\ eth_ev_digest_num = 1
    /\ Codes(tx_results) = {Ok}
    /\ storage.tx_queue = <<QueuedWrapper("hA"), QueuedWrapper("hB")>>
    /\ status = "Accept"

\* C15: a call with the proposal of the first call returns the results and the
\* status of the first call, whatever calls were served in between; every call
\* starts with the cursor at the head of the queue and the digest counter at 0.
C15_SameProposalSameResponse ==
    /\ ( /\ pc = "folded"
         /\ first_response.some
         /\ first_response.req = req )
       => /\ tx_results = first_response.tx_results
          /\ status = first_response.status
    /\ pc = "scanning" /\ idx = 0 =>
          tx_queue_iter = 0 /\ eth_ev_digest_num = 0

\* C15 witness: a later call with the proposal of the first call, which moves the
\* cursor and counts a digest, is answered as the first call was.
C15_Witness ==
    /\ pc = "folded"
    /\ first_response.some
    /\ first_response.req = req
    /\ tx_queue_iter >= 1
    /\ eth_ev_digest_num = 1
    /\ tx_results = first_response.tx_results
    /\ status = first_response.status
    /\ status = "Accept"

\* C16: verify_header and revert_proposal return the default response and leave
\* the storage and everything a process_proposal call left behind as they were;
\* with them interleaved, a call with the proposal of the first call is still
\* answered as the first call was.
C16_ShimCallsAreNoOps ==
    [][ /\ pc = "idle" /\ pc' = "idle" =>
              /\ shim_response' \in {"VerifyHeader::default", "RevertProposal::default"}
              /\ UNCHANGED <<storage, req, idx, tx_queue_iter, eth_ev_digest_num,
                             tx_results, status, first_response>>
        /\ ( /\ pc' = "folded"
             /\ first_response'.some
             /\ first_response'.req = req' )
           => /\ tx_results' = first_response'.tx_results
              /\ status' = first_response'.status ]_vars

\* C16 witness: revert_proposal returned its default response after a proposal
\* was accepted, and the stored queue is as it was.
C16_Witness ==
    /\ pc = "idle"
    /\ shim_response = "RevertProposal::default"
    /\ first_response.some
    /\ first_response.status = "Accept"
    /\ Len(first_response.req) = 2
    /\ storage.tx_queue = <<QueuedWrapper("hA"), QueuedWrapper("hB")>>

\* The decrypted transactions of the proposal do not follow the order of the queue:
\* one of them is answered InvalidOrder or ExtraTxs.
OrderViolated == Codes(tx_results) \cap {InvalidOrder, ExtraTxs} # {}

Mislabelled(st, txs, k) ==
    /\ txs[k].type = "Decrypted"
    /\ txs[k].variant = "Undecryptable"
    /\ txs[k].wrapper.inner = txs[k].wrapper.tx_hash
    /\ Cardinality(DecryptedBefore(txs, k)) < Len(st.tx_queue)
    /\ st.tx_queue[Cardinality(DecryptedBefore(txs, k)) + 1].tx_hash
          = txs[k].wrapper.tx_hash

\* C18: a transaction marked Undecryptable whose wrapper is the queue entry at the
\* cursor and whose payload does decrypt is answered InvalidTx, and a rejection is
\* never due to it: a rejected proposal has a wrong digest count or an
\* unrecoverable result on another transaction.
C18_MislabelledIsInvalidTx ==
    /\ pc \in {"scanning", "folded"} =>
          \A k \in 1 .. Len(tx_results) :
             Mislabelled(storage, req, k) =>
                /\ tx_results[k].code = InvalidTx
                /\ tx_results[k].info =
                      "The encrypted payload of tx was incorrectly marked as un-decryptable"
    /\ pc = "folded" /\ status = "Reject" =>
          \/ Cardinality(DigestPositions(req)) # 1
          \/ \E k \in 1 .. Len(req) :
                /\ ~Mislabelled(storage, req, k)
                /\ tx_results[k].code \in UnrecoverableCodes

\* C18 witness: the first queued wrapper is handed in as Undecryptable although
\* its payload decrypts, the answer is InvalidTx, the next decrypted transaction
\* is checked against the second queue entry, and the proposal is accepted.
C18_Witness ==
    /\ pc = "folded"
    /\ Len(req) = 3
    /\ Mislabelled(storage, req, 1)
    /\ tx_results[1].code = InvalidTx
    /\ req[2] = DecryptedTx("hB")
    /\ tx_results[2].code = Ok
    /\ status = "Accept"

\* C19: a transaction marked Undecryptable whose payload does not decrypt, or
\* decrypts to something else than the wrapper commits to, and whose commitment
\* is the tx_hash of the queue entry at the cursor, is answered Ok.
C19_UndecryptableIsOk ==
    [][ ( /\ idx' = idx + 1
          /\ req'[1].type = "Decrypted"
          /\ req'[1].variant = "Undecryptable"
          /\ req'[1].wrapper.inner # req'[1].wrapper.tx_hash
          /\ tx_queue_iter < Len(storage.tx_queue)
          /\ AtCursor.tx_hash = req'[1].wrapper.tx_hash )
        => /\ tx_results'[1].code = Ok
           /\ tx_queue_iter' = tx_queue_iter + 1 ]_vars

\* C19 witness: the payload decrypts to a transaction with another hash than the
\* wrapper commits to, the wrapper is the second queue entry, the answer is Ok.
C19_Witness ==
    /\ pc = "single"
    /\ Len(req) = 1
    /\ req[1].type = "Decrypted"
    /\ req[1].variant = "Undecryptable"
    /\ req[1].wrapper.inner \in Hashes \ {req[1].wrapper.tx_hash}
    /\ tx_queue_iter = 2
    /\ storage.tx_queue[2].tx_hash = req[1].wrapper.tx_hash
    /\ tx_results[1].code = Ok

\* C20: bytes that do not decode are answered InvalidTx, the call never aborts,
\* the transactions after them are processed, and a rejection is never due to
\* them: a rejected proposal has a wrong digest count or an unrecoverable result
\* on a transaction that decodes.
C20_UndecodableIsInvalidTx ==
    /\ pc # "aborted"
    /\ pc \in {"scanning", "folded"} =>
          \A k \in 1 .. Len(tx_results) :
             req[k].type = "Undecodable" =>
                tx_results[k] =
                   TxResult(InvalidTx, "The submitted transaction was not deserializable")
    /\ pc = "folded" =>
          /\ Len(tx_results) = Len(req)
          /\ status = "Reject" =>
                \/ Cardinality(DigestPositions(req)) # 1
                \/ \E k \in 1 .. Len(req) :
                      /\ req[k].type # "Undecodable"
                      /\ tx_results[k].code \in UnrecoverableCodes

\* C20 witness: undecodable bytes come first, the decrypted transaction and the
\* digest after them are processed and answered Ok, and the proposal is accepted.
C20_Witness ==
    /\ pc = "folded"
    /\ Len(req) = 3
    /\ req[1].type = "Undecodable"
    /\ tx_results[1].code = InvalidTx
    /\ req[2].type = "Decrypted"
    /\ tx_queue_iter = 1
    /\ tx_results[2].code = Ok
    /\ IsDigestTx(req[3])
    /\ tx_results[3].code = Ok
    /\ status = "Accept"

\* min(d, n)
Min(d, n) == IF d < n THEN d ELSE n

\* The transactions among the first k of txs that decoded as Decrypted or
\* Undecryptable.
DecryptedUpTo(txs, k) == { j \in 1 .. k : txs[j].type = "Decrypted" }

\* C21: during the scan the cursor is min(d, n), d the number of processed
\* transactions that decoded as Decrypted or Undecryptable and n the length of the
\* queue; one turn of the scan moves the cursor by one for such a transaction,
\* whatever its result, and not at all for any other; the i-th such transaction is
\* answered Ok or InvalidTx only if its commitment is the i-th queue entry's hash.
C21_CursorIsMinOfDecryptedAndQueue ==
    [][ /\ pc' \in {"scanning", "folded"} =>
              /\ tx_queue_iter' =
                    Min(Cardinality(DecryptedUpTo(req', idx')), Len(storage'.tx_queue))
              /\ \A k \in DecryptedUpTo(req', Len(tx_results')) :
                    LET i == Cardinality(DecryptedUpTo(req', k))
                    IN IF i <= Len(storage'.tx_queue)
                       THEN IF storage'.tx_queue[i].tx_hash = hash_commitment(req'[k])
                            THEN tx_results'[k].code \in {Ok, InvalidTx}
                            ELSE tx_results'[k].code = InvalidOrder
                       ELSE tx_results'[k].code = ExtraTxs
        /\ pc = "scanning" /\ idx' = idx + 1 =>
              tx_queue_iter' =
                 IF req[idx'].type = "Decrypted" /\ tx_queue_iter < Len(storage.tx_queue)
                 THEN tx_queue_iter + 1
                 ELSE tx_queue_iter ]_vars

\* C21 witness: three decrypted transactions against a queue of three, the first
\* answered InvalidTx, the second InvalidOrder, the third, compared with the third
\* queue entry, Ok; the cursor is at 3.
C21_Witness ==
    /\ pc = "folded"
    /\ Len(storage.tx_queue) = 3
    /\ DecryptedUpTo(req, Len(req)) = {1, 2, 3}
    /\ tx_results[1].code = InvalidTx
    /\ tx_results[2].code = InvalidOrder
    /\ tx_results[3].code = Ok
    /\ tx_queue_iter = 3

\* The transaction is marked Undecryptable although its payload decrypts to the
\* transaction its wrapper commits to.
WronglyMarked(tx) ==
    /\ tx.type = "Decrypted"
    /\ tx.variant = "Undecryptable"
    /\ tx.wrapper.inner = tx.wrapper.tx_hash

\* C22: with a queue entry at the cursor, a decrypted transaction whose commitment
\* differs from the entry's hash is answered InvalidOrder, also when it is wrongly
\* marked Undecryptable; InvalidTx is answered only when the hashes are equal and
\* the transaction is wrongly marked.
C22_HashBeforeDecryption ==
    [][ ( /\ idx' = idx + 1
          /\ req'[1].type = "Decrypted"
          /\ tx_queue_iter < Len(storage.tx_queue) )
        => /\ AtCursor.tx_hash # hash_commitment(req'[1]) =>
                 tx_results'[1].code = InvalidOrder
           /\ tx_results'[1].code = InvalidTx =>
                 /\ AtCursor.tx_hash = hash_commitment(req'[1])
                 /\ WronglyMarked(req'[1]) ]_vars

\* C22 witness: a wrongly marked transaction whose commitment is not the hash of
\* the queue entry it was compared with, answered InvalidOrder.
C22_Witness ==
    /\ pc = "single"
    /\ Len(req) = 1
    /\ WronglyMarked(req[1])
    /\ tx_queue_iter >= 1
    /\ idx = 1
    /\ storage.tx_queue[1].tx_hash # req[1].wrapper.tx_hash
    /\ tx_results[1].code = InvalidOrder

\* C23: the result of a digest is the same for every order in which its
\* extensions can be visited.
C23_DigestOrderIndependent ==
    SingleDigest =>
       \A order \in VisitOrders(req[1]) :
          DigestArm(storage, req[1].digest, order) = tx_results[1]

\* C23 witness: three extensions, of which v1's verifies and alone holds more than
\* 2/3 and another does not verify, so that the visit ends at different points
\* in different orders; the answer is InvalidVoteExtension.
C23_Witness ==
    /\ SingleDigest
    /\ DOMAIN req[1].digest.signatures = AllSigners
    /\ ExtVerifies(storage, req[1].digest, "v1")
    /\ 3 * storage.validators["v1"]
          > 2 * SumPower(storage.validators, DOMAIN storage.validators)
    /\ ~ExtVerifies(storage, req[1].digest, "v2")
    /\ tx_results[1].code = InvalidVoteExtension

\* C24: the digest counter is the number of processed transactions that decode,
\* pass the outer signature check and are Protocol(EthereumEvents), whatever the
\* answer to the digest; one turn of the scan adds one for such a transaction and
\* nothing for any other; a valid and an invalid digest count 2 and the proposal
\* is rejected.
C24_EveryDigestCounts ==
    [][ /\ pc' \in {"scanning", "folded"} =>
              eth_ev_digest_num' =
                 Cardinality(DigestPositions(req') \cap (1 .. idx'))
        /\ pc = "scanning" /\ idx' = idx + 1 =>
              eth_ev_digest_num' =
                 IF IsDigestTx(req[idx']) THEN eth_ev_digest_num + 1
                 ELSE eth_ev_digest_num
        /\ pc' = "folded" /\ eth_ev_digest_num' = 2 => status' = "Reject" ]_vars

\* C24 witness: a digest answered Ok, a digest answered InvalidVoteExtension and a
\* protocol transaction that fails the outer signature check; the counter is 2
\* and the proposal is rejected.
C24_Witness ==
    /\ pc = "folded"
    /\ Len(req) = 3
    /\ \E i, j, k \in 1 .. 3 :
          /\ IsDigestTx(req[i]) /\ tx_results[i].code = Ok
          /\ IsDigestTx(req[j]) /\ tx_results[j].code = InvalidVoteExtension
          /\ req[k].type = "Protocol" /\ ~IsDigestTx(req[k])
          /\ tx_results[k].code = InvalidSig
    /\ eth_ev_digest_num = 2
    /\ status = "Reject"

\* C25: every code among the results is Ok, InvalidTx, InvalidSig, InvalidOrder,
\* ExtraTxs or InvalidVoteExtension, never WasmRuntimeError or Undecryptable, and
\* the fold never aborts on a code outside the table.
C25_ProducedCodes ==
    /\ Codes(tx_results) \subseteq
          {Ok, InvalidTx, InvalidSig, InvalidOrder, ExtraTxs, InvalidVoteExtension}
    /\ Codes(tx_results) \cap {WasmRuntimeError, Undecryptable} = {}
    /\ \A k \in 1 .. Len(tx_results) : from_u32(tx_results[k].code).some
    /\ pc # "aborted"

\* C25 witness: the fold went through three results with three different error
\* codes, one of them for a wrongly marked transaction, and returned a status.
C25_Witness ==
    /\ pc = "folded"
    /\ Codes(tx_results) = {InvalidTx, InvalidSig, InvalidVoteExtension}
    /\ \E k \in 1 .. Len(req) : WronglyMarked(req[k])
    /\ status = "Reject"

\* The power accumulated after the first i extensions of `order` were visited,
\* starting from FractionalVotingPower::default().
PowerAfter(st, digest, order, i) ==
    all_valid(st, decompress(digest, st.last_height), SubSeq(order, 1, i), 1, 0).voting_power

\* C26: for every digest, in every visiting order and after every number of
\* visited extensions, the accumulated power is between 0 and the total power
\* (the fraction is in [0, 1]) and at most the power of the signers that verify,
\* each counted once; a digest is answered Ok only on the power of its own
\* signers, whatever digests were processed before it.
C26_PowerWithinUnit ==
    SingleDigest =>
       LET total == get_total_voting_power(storage)
       IN /\ \A order \in VisitOrders(req[1]) : \A i \in 0 .. Len(order) :
                LET p == PowerAfter(storage, req[1].digest, order, i)
                IN /\ 0 <= p
                   /\ p <= total
                   /\ p <= VerifiedPower(storage, req[1].digest)
                   /\ i = 0 => p = 0
          /\ tx_results[1].code = Ok =>
                3 * VerifiedPower(storage, req[1].digest) > 2 * total

\* C26 witness: the second of two digests in a row; every validator signed it and
\* verifies, so the accumulated fraction is exactly 1.
C26_Witness ==
    /\ SingleDigest
    /\ idx = 2
    /\ eth_ev_digest_num = 2
    /\ DOMAIN req[1].digest.signatures = DOMAIN storage.validators
    /\ \E order \in VisitOrders(req[1]) :
          PowerAfter(storage, req[1].digest, order, Len(order))
             = get_total_voting_power(storage)
    /\ tx_results[1].code = Ok

\* C27: process_txs on the transactions of a proposal returns one list only, the
\* list of results process_proposal collected for that proposal: same length,
\* order, codes and messages, whatever the digest count and the status.
C27_ProcessTxsSameResults ==
    pc = "folded" =>
       process_txs(storage, req) =
          { [k \in 1 .. Len(tx_results) |-> ExecTxResult_from(tx_results[k])] }

\* C27 witness: a proposal without digest, rejected on the digest count, whose
\* second decrypted transaction was accepted against the second queue entry;
\* process_txs returns the same three results.
C27_Witness ==
    /\ pc = "folded"
    /\ Len(req) = 3
    /\ DigestPositions(req) = {}
    /\ DecryptedUpTo(req, 3) = {1, 3}
    /\ tx_results[1].code = Ok
    /\ tx_results[3].code = Ok
    /\ status = "Reject"
    /\ tx_results \in process_txs(storage, req)

\* The permutations of the positions of txs that keep the decrypted transactions
\* in their relative order.
OrderKeeping(txs) ==
    { p \in [1 .. Len(txs) -> 1 .. Len(txs)] :
        /\ \A i, j \in 1 .. Len(txs) : i # j => p[i] # p[j]
        /\ \A i, j \in 1 .. Len(txs) :
              (i < j /\ txs[p[i]].type = "Decrypted" /\ txs[p[j]].type = "Decrypted")
                 => p[i] < p[j] }

Permuted(seq, p) == [k \in 1 .. Len(seq) |-> seq[p[k]]]

\* The status process_proposal returns for a list of results and a digest count.
StatusOf(results, num) == ProposalStatus(num, any_unrecoverable(results, 1) = "true")

\* C28: for every permutation of the proposal that keeps its decrypted
\* transactions in their relative order, every transaction has in the permuted
\* proposal the result it has in this one, and the status is the same.
C28_PermutationInvariant ==
    pc = "folded" =>
       \A p \in OrderKeeping(req) :
          /\ process_txs(storage, Permuted(req, p)) = { Permuted(tx_results, p) }
          /\ StatusOf(Permuted(tx_results, p),
                      Cardinality(DigestPositions(Permuted(req, p)))) = status

\* C28 witness: an accepted proposal of two decrypted transactions and a digest,
\* with a permutation that moves the digest in front of both.
C28_Witness ==
    /\ pc = "folded"
    /\ Len(req) = 3
    /\ DecryptedUpTo(req, 3) = {1, 2}
    /\ IsDigestTx(req[3])
    /\ Codes(tx_results) = {Ok}
    /\ status = "Accept"
    /\ \E p \in OrderKeeping(req) : p[1] = 3 /\ p[2] = 1 /\ p[3] = 2

\* C29: a proposal with exactly one digest and no unrecoverable result is
\* accepted also when its decrypted transactions go through a strict prefix of
\* the queue only, or through none of it.
C29_QueueNeedNotBeConsumed ==
    ( /\ pc = "folded"
      /\ tx_queue_iter < Len(storage.tx_queue)
      /\ Cardinality(DigestPositions(req)) = 1
      /\ Codes(tx_results) \cap UnrecoverableCodes = {} )
    => status = "Accept"

\* C29 witness: one decrypted transaction matching the first of three queued
\* wrappers and one valid digest; two wrappers are left and the proposal is
\* accepted.
C29_Witness ==
    /\ pc = "folded"
    /\ Len(storage.tx_queue) = 3
    /\ tx_queue_iter = 1
    /\ Cardinality(DecryptedUpTo(req, Len(req))) = 1
    /\ Cardinality(DigestPositions(req)) = 1
    /\ Codes(tx_results) = {Ok}
    /\ status = "Accept"

====
